---- MODULE Spec2Model ----
(***************************************************************************)
(* Live price feed of the sports trading terminal (sports_websocket.py).   *)
(*                                                                         *)
(* Prices are counted in units of 0.25: the inputs are the even values     *)
(* 0, 2, 4 (0.0, 0.5, 1.0), so that (bid + ask) / 2 is an exact integer    *)
(* and exact in binary floating point as well.                             *)
(*                                                                         *)
(* _live_prices is a dict of dicts.  Python dicts are objects reached by   *)
(* reference, so the store maps an asset id to an object id and the heap   *)
(* maps an object id to the entry it holds.                                *)
(***************************************************************************)
EXTENDS Integers, Sequences, FiniteSets, TLC

VARIABLES
    live_prices,   \* _live_prices: asset id -> object id of the entry dict
    heap,          \* object id -> entry dict {bid, ask, mid, updated}, or NoObj
    now,           \* the value time.time() returns
    lastOp,        \* the most recent call and its arguments
    hist,          \* per asset id: which sides were ever supplied, and with what
    held,          \* the dict get_all_live_prices returned to the reader, or NoDict
    seen,          \* what that dict held when it was returned
    threads,       \* the connection threads ever started, in order of start
    ws_thread,     \* _ws_thread: index into threads, 0 for None
    subscribed_ids,\* _subscribed_ids
    merge,         \* the merge call in progress: its buttons, its position,
                   \* and the buttons as the caller gave them
    config,        \* sports_config: what the environment set at import
    client,        \* sports_executor._client: "none", "ready", or "nocreds"
    bet,           \* the last /api/place-bet request and how it ended
    callers,       \* the request handlers inside start_live_prices: where
                   \* each one is, and the ids it computed
    lock,          \* _lock: the thread that holds it, or NoOne
    ops,           \* the store operation each thread is in, and where in it
    written        \* the {bid, ask, mid} triples line 47 has ever stored

vars == <<live_prices, heap, now, lastOp, hist, held, seen,
          threads, ws_thread, subscribed_ids, merge, config, client, bet,
          callers, lock, ops, written>>
readerVars == <<held, seen>>
connVars == <<threads, ws_thread, subscribed_ids>>
storeVars == <<live_prices, heap, now, hist, held, seen>>
betVars == <<config, client, bet>>
lockVars == <<lock, ops, written>>

----------------------------------------------------------------------------
(* Bounds *)

MaxTime == 1       \* the clock runs 0..MaxTime
MaxObjs == 4       \* object ids 1..MaxObjs

----------------------------------------------------------------------------
(* Values *)

None == -1                       \* Python None, where a float is expected

Keys == {"A", "B"}               \* instrument ids seen on the wire
EmptyId == ""                    \* asset_id = ""
NullId == "<null>"               \* asset_id = None (key missing, or JSON null)
BadId == "<unhashable>"          \* asset_id of a type no dict accepts as key (a list)
AssetIds == Keys \cup {EmptyId, NullId, BadId}

Prices == {0, 2, 4}              \* 0.0, 0.5, 1.0
OptPrices == Prices \cup {None}

ObjIds == 1..MaxObjs
NoObj == [bid |-> None, ask |-> None, mid |-> None, updated |-> None]

\* Python truthiness of a float-or-None: None and 0.0 are false
Truthy(x) == x # None /\ x # 0

\* Python `a or b`
PyOr(a, b) == IF Truthy(a) THEN a ELSE b

\* Python truthiness of an asset id: None and "" are false
TruthyId(a) == a # EmptyId /\ a # NullId

----------------------------------------------------------------------------
(* The store *)

Mem == [store |-> live_prices, heap |-> heap]

\* A dict a caller holds: the module's own dict (alias), or a dict of its own
\* with the items given.  NoDict: the caller holds none.
NoDict == [alias |-> FALSE, items |-> <<>>, none |-> TRUE]
ItemsOf(d) == IF d.alias THEN live_prices ELSE d.items

\* the entry dicts the reader's dict refers to: they stay allocated
Pinned == {held.items[k] : k \in DOMAIN held.items}

\* the entry a store holds for asset id k
EntryOf(mem, k) == mem.heap[mem.store[k]]
Entry(k) == EntryOf(Mem, k)

\* line 46: mid = (bid + ask) / 2 if (bid and ask) else (bid or ask)
MidOf(bid, ask) ==
    IF Truthy(bid) /\ Truthy(ask) THEN (bid + ask) \div 2 ELSE PyOr(bid, ask)

\* The object a new entry dict for asset id k occupies.  The dict the key was
\* bound to is freed by the rebinding unless a reader holds it, and its
\* place may be taken again at once.
NewObj(mem, k) ==
    IF k \in DOMAIN mem.store /\ mem.store[k] \notin Pinned
    THEN mem.store[k]
    ELSE CHOOSE i \in ObjIds :
            /\ mem.heap[i] = NoObj
            /\ \A j \in ObjIds : mem.heap[j] = NoObj => i <= j

\* lines 39-52 without lines 42-45 (no mirroring of a missing side)
MergeNoMirror(prev, bid, ask, t) ==
    LET b == IF bid # None THEN bid ELSE prev.bid
        a == IF ask # None THEN ask ELSE prev.ask
    IN  [bid |-> b, ask |-> a, mid |-> MidOf(b, a), updated |-> t]

\* lines 39-52 with the missing side always mirrored, never backfilled
MergeNoBackfill(prev, bid, ask, t) ==
    LET b == IF bid # None THEN bid ELSE ask
        a == IF ask # None THEN ask ELSE bid
    IN  [bid |-> b, ask |-> a, mid |-> MidOf(b, a), updated |-> t]

\* lines 39-52: the entry written, from the previous entry (NoObj when the
\* key is new: prev = {} and prev.get(...) is None) and the arguments
Merge(prev, bid, ask, t) ==
    LET b1 == IF bid # None THEN bid ELSE prev.bid
        a1 == IF ask # None THEN ask ELSE prev.ask
        b2 == IF b1 = None THEN a1 ELSE b1
        a2 == IF a1 = None THEN b2 ELSE a1
    IN  [bid |-> b2, ask |-> a2, mid |-> MidOf(b2, a2), updated |-> t]

\* lines 47-52 as an update of the entry dict the key is bound to
BindInPlace(mem, k, entry) ==
    IF k \in DOMAIN mem.store
    THEN [store |-> mem.store, heap |-> [mem.heap EXCEPT ![mem.store[k]] = entry]]
    ELSE [store |-> (k :> NewObj(mem, k)) @@ mem.store,
          heap  |-> [mem.heap EXCEPT ![NewObj(mem, k)] = entry]]

\* lines 47-52: bind the key to a new entry dict
Bind(mem, k, entry) ==
    LET obj == NewObj(mem, k)
    IN  [store |-> (k :> obj) @@ mem.store,
         heap  |-> [mem.heap EXCEPT ![obj] = entry]]

\* _update_price without the test of line 37
UpdatePriceNoNullTest(mem, asset_id, bid, ask) ==
    IF ~TruthyId(asset_id)
    THEN [mem |-> mem, raised |-> FALSE]
    ELSE IF asset_id = BadId
    THEN [mem |-> mem, raised |-> TRUE]
    ELSE LET prev == IF asset_id \in DOMAIN mem.store
                     THEN EntryOf(mem, asset_id) ELSE NoObj
         IN  [mem |-> Bind(mem, asset_id, Merge(prev, bid, ask, now)),
              raised |-> FALSE]

\* _update_price(asset_id, bid, ask): the store after the call, and whether
\* the call raised (dict.get of an unhashable key raises TypeError)
UpdatePrice(mem, asset_id, bid, ask) ==
    IF ~TruthyId(asset_id)
    THEN [mem |-> mem, raised |-> FALSE]
    ELSE IF bid = None /\ ask = None
    THEN [mem |-> mem, raised |-> FALSE]
    ELSE IF asset_id = BadId
    THEN [mem |-> mem, raised |-> TRUE]
    ELSE LET prev == IF asset_id \in DOMAIN mem.store
                     THEN EntryOf(mem, asset_id) ELSE NoObj
         IN  [mem |-> Bind(mem, asset_id, Merge(prev, bid, ask, now)),
              raised |-> FALSE]

----------------------------------------------------------------------------
(* History of the sides supplied, kept for the statements below *)

NoHist == [everBid |-> FALSE, everAsk |-> FALSE,
           lastBid |-> None, lastAsk |-> None, first |-> None]

\* a call that reaches line 39 and writes an entry
Applies(asset_id, bid, ask) ==
    asset_id \in Keys /\ (bid # None \/ ask # None)

\* first: the value of the first call, as long as one side only was supplied
Note(h, bid, ask) ==
    LET eb == h.everBid \/ bid # None
        ea == h.everAsk \/ ask # None
    IN  [everBid |-> eb, everAsk |-> ea,
         lastBid |-> IF bid # None THEN bid ELSE h.lastBid,
         lastAsk |-> IF ask # None THEN ask ELSE h.lastAsk,
         first   |-> IF eb /\ ea THEN None
                     ELSE IF h.everBid \/ h.everAsk THEN h.first
                     ELSE IF bid # None THEN bid ELSE ask]

Record(h, asset_id, bid, ask) ==
    IF Applies(asset_id, bid, ask)
    THEN [h EXCEPT ![asset_id] = Note(h[asset_id], bid, ask)]
    ELSE h

\* sports_config.py line 41: USE_MARKET_ORDER, True unless the environment
\* says otherwise
DefaultConfig == [use_market |-> TRUE]
Configs == [use_market : BOOLEAN]

\* no request has been made
NoOrder == [kind |-> "none", amount |-> 0, price |-> 0, size |-> 0]
NoBet ==
    [req |-> [token_id |-> "", amount |-> [t |-> "absent", v |-> -1],
              price |-> [t |-> "absent", v |-> -1]],
     order |-> NoOrder, result |-> "none", status |-> 0]

\* no merge call is running
NoMerge == [buttons |-> <<>>, pos |-> 0, given |-> <<>>]

\* the request-handler threads of the server (app.run(threaded=True))
Handlers == {"h1", "h2"}
\* a handler that is not inside start_live_prices
IdleCaller == [pc |-> "idle", ids |-> <<>>]

\* the threads that use the store: connection threads call _update_price,
\* a request handler reads
Writers == {"w1", "w2"}
Readers == {"r"}
StoreThreads == Writers \cup Readers
NoOne == "none"
\* a thread that is in no store operation
IdleOp == [pc |-> "idle", op |-> "none", asset_id |-> EmptyId,
           bid |-> None, ask |-> None]

----------------------------------------------------------------------------
(* Actions *)

\* everything but the configuration
InitState ==
    /\ live_prices = <<>>
    /\ heap = [i \in ObjIds |-> NoObj]
    /\ now = 0
    /\ lastOp = [op |-> "init"]
    /\ hist = [k \in Keys |-> NoHist]
    /\ held = NoDict
    /\ seen = <<>>
    /\ threads = <<>>
    /\ ws_thread = 0
    /\ subscribed_ids = {}
    /\ merge = NoMerge
    /\ client = "none"
    /\ bet = NoBet
    /\ callers = [h \in Handlers |-> IdleCaller]
    /\ lock = NoOne
    /\ ops = [c \in StoreThreads |-> IdleOp]
    /\ written = {}

\* the configuration of an environment that sets nothing
Init == InitState /\ config = DefaultConfig

\* time passes
Tick ==
    /\ now < MaxTime
    /\ now' = now + 1
    /\ UNCHANGED <<live_prices, heap, lastOp, hist, readerVars, connVars, merge, betVars, callers, lockVars>>

\* _update_price(asset_id, bid, ask) called directly; the arguments are kept
UpdatePriceCall(asset_id, bid, ask) ==
    LET r == UpdatePrice(Mem, asset_id, bid, ask)
    IN  /\ live_prices' = r.mem.store
        /\ heap' = r.mem.heap
        /\ lastOp' = [op |-> "update", asset_id |-> asset_id,
                      bid |-> bid, ask |-> ask]
        /\ UNCHANGED <<now, hist, readerVars, connVars, merge, betVars, callers, lockVars>>

\* the same call, with the sides it supplies noted in hist
UpdatePriceTraced(asset_id, bid, ask) ==
    LET r == UpdatePrice(Mem, asset_id, bid, ask)
    IN  /\ live_prices' = r.mem.store
        /\ heap' = r.mem.heap
        /\ lastOp' = [op |-> "update"]
        /\ hist' = Record(hist, asset_id, bid, ask)
        /\ UNCHANGED <<now, readerVars, connVars, merge, betVars, callers, lockVars>>

CallIds == Keys \cup {EmptyId, NullId}

Next ==
    \/ Tick
    \/ \E a \in CallIds, b \in OptPrices, k \in OptPrices : UpdatePriceCall(a, b, k)

Spec == Init /\ [][Next]_vars

NextHist ==
    \E a \in CallIds, b \in OptPrices, k \in OptPrices : UpdatePriceTraced(a, b, k)

SpecHist == Init /\ [][NextHist]_vars

----------------------------------------------------------------------------
(* Readers *)

\* what a dict shows to the caller that holds it: bid, ask and mid per key
ViewOf(d) ==
    [k \in DOMAIN ItemsOf(d) |->
        LET e == heap[ItemsOf(d)[k]]
        IN  [bid |-> e.bid, ask |-> e.ask, mid |-> e.mid]]

\* line 29 returning _live_prices itself
LivePricesAlias == [alias |-> TRUE, items |-> <<>>, none |-> FALSE]

\* line 29: dict(_live_prices), a new dict that refers to the same entry dicts
LivePricesCopy == [alias |-> FALSE, items |-> live_prices, none |-> FALSE]

\* get_all_live_prices() returns to the reader
GetAllLivePrices ==
    /\ held.none
    /\ held' = LivePricesCopy
    /\ seen' = ViewOf(LivePricesCopy)
    /\ UNCHANGED <<live_prices, heap, now, lastOp, hist, connVars, merge, betVars, callers, lockVars>>

\* the reader lets go of the dict; entry dicts no one refers to are freed
Drop ==
    /\ ~held.none
    /\ held' = NoDict
    /\ seen' = <<>>
    /\ heap' = [i \in ObjIds |->
                IF \E k \in DOMAIN live_prices : live_prices[k] = i
                THEN heap[i] ELSE NoObj]
    /\ UNCHANGED <<live_prices, now, lastOp, hist, connVars, merge, betVars, callers, lockVars>>

ReadPrices == {None, 2, 4}

NextRead ==
    \/ GetAllLivePrices
    \/ Drop
    \/ \E a \in Keys, b \in ReadPrices, k \in ReadPrices : UpdatePriceCall(a, b, k)

SpecRead == Init /\ [][NextRead]_vars

----------------------------------------------------------------------------
(* Wire messages *)

\* A JSON value where a price is expected: the key is absent, null, "",
\* a string that is no number, a decimal string, or a number.
J(t, v) == [t |-> t, v |-> v]
JAbsent == J("absent", None)
JNull == J("null", None)
JEmpty == J("empty", None)
JBad == J("bad", None)
JStr(v) == J("str", v)
JNum(v) == J("num", v)

\* d.get(key): None for an absent key and for null
IsNone(w) == w.t \in {"absent", "null"}

\* Python truthiness of a value that is not None: "" and 0 are false, every
\* other string is true ("0" as well)
TruthyJ(w) == w.t \in {"str", "bad"} \/ (w.t = "num" /\ w.v # 0)

\* float(x): raises for None, "" and a string that is no number
FloatOf(w) ==
    IF w.t \in {"str", "num"}
    THEN [raised |-> FALSE, val |-> w.v]
    ELSE [raised |-> TRUE, val |-> None]

NoFloat == [raised |-> FALSE, val |-> None]

\* a JSON object with none of the keys the decoder reads
BlankMsg ==
    [dict |-> TRUE, event_type |-> "", asset_id |-> NullId,
     bids |-> <<>>, asks |-> <<>>, buys |-> <<>>, sells |-> <<>>,
     price_changes |-> <<>>, price |-> JAbsent]

\* a JSON value that is no object (a number, a string)
NonDict == [BlankMsg EXCEPT !.dict = FALSE]

Level(w) == [price |-> w]
Change(a, b, k) == [dict |-> TRUE, asset_id |-> a, best_bid |-> b, best_ask |-> k]
NonDictChange == [dict |-> FALSE, asset_id |-> NullId, best_bid |-> JAbsent, best_ask |-> JAbsent]

Book(a, bids, asks) ==
    [BlankMsg EXCEPT !.event_type = "book", !.asset_id = a, !.bids = bids, !.asks = asks]
BookAlias(a, bids, asks, buys, sells) ==
    [BlankMsg EXCEPT !.event_type = "book", !.asset_id = a, !.bids = bids,
                     !.asks = asks, !.buys = buys, !.sells = sells]
PriceChange(chs) ==
    [BlankMsg EXCEPT !.event_type = "price_change", !.price_changes = chs]
Trade(a, w) ==
    [BlankMsg EXCEPT !.event_type = "last_trade_price", !.asset_id = a, !.price = w]
\* a message of a kind the decoder does not know, and one with no kind at
\* all, both with the fields the known kinds carry
OtherKind ==
    [BlankMsg EXCEPT !.event_type = "tick_size_change", !.asset_id = "A",
                     !.bids = <<Level(JStr(2))>>, !.asks = <<Level(JStr(4))>>,
                     !.price_changes = <<Change("A", JStr(2), JStr(4))>>,
                     !.price = JStr(2)]
NoKind == [OtherKind EXCEPT !.event_type = ""]

\* A frame: text that is no JSON, one JSON value, or a JSON array of values
BadFrame == [valid |-> FALSE, list |-> FALSE, obj |-> BlankMsg, arr |-> <<>>]
ObjFrame(m) == [valid |-> TRUE, list |-> FALSE, obj |-> m, arr |-> <<>>]
ArrFrame(ms) == [valid |-> TRUE, list |-> TRUE, obj |-> BlankMsg, arr |-> ms]

----------------------------------------------------------------------------
(* The decoder *)

Ok(mem) == [mem |-> mem, raised |-> FALSE]
Raise(mem) == [mem |-> mem, raised |-> TRUE]

\* Python `a or b` on lists
SeqOr(a, b) == IF a # <<>> THEN a ELSE b

\* lines 74-75 taking the last level of a side
LastLevelPrice(levels) ==
    IF levels = <<>> THEN NoFloat
    ELSE IF levels[Len(levels)].price.t = "absent" THEN [raised |-> TRUE, val |-> None]
    ELSE FloatOf(levels[Len(levels)].price)

\* lines 74-75: float(levels[0]["price"]) if levels else None
FirstLevelPrice(levels) ==
    IF levels = <<>> THEN NoFloat
    ELSE IF levels[1].price.t = "absent" THEN [raised |-> TRUE, val |-> None]
    ELSE FloatOf(levels[1].price)

\* lines 70-76
BookBody(mem, data) ==
    LET bids == SeqOr(data.bids, data.buys)
        asks == SeqOr(data.asks, data.sells)
        bid == FirstLevelPrice(bids)
        ask == FirstLevelPrice(asks)
    IN  IF bid.raised \/ ask.raised
        THEN Raise(mem)
        ELSE UpdatePrice(mem, data.asset_id, bid.val, ask.val)

\* lines 81-86: ch.get(side), then float(side) if side else None
ChangeSide(w) ==
    IF IsNone(w) THEN NoFloat
    ELSE IF TruthyJ(w) THEN FloatOf(w)
    ELSE NoFloat

\* lines 80-87, one element of price_changes
ChangeBody(mem, ch) ==
    IF ~ch.dict THEN Raise(mem)
    ELSE LET bid == ChangeSide(ch.best_bid)
             ask == ChangeSide(ch.best_ask)
         IN  IF bid.raised \/ ask.raised
             THEN Raise(mem)
             ELSE UpdatePrice(mem, ch.asset_id, bid.val, ask.val)

\* lines 79-87: the loop stops at the first element that raises
RECURSIVE ChangesBody(_, _)
ChangesBody(mem, chs) ==
    IF chs = <<>> THEN Ok(mem)
    ELSE LET r == ChangeBody(mem, Head(chs))
         IN  IF r.raised THEN r ELSE ChangesBody(r.mem, Tail(chs))

\* lines 89-94 with the price passed as the bid alone
TradeBodyBidOnly(mem, data) ==
    IF IsNone(data.price) THEN Ok(mem)
    ELSE LET p == FloatOf(data.price)
         IN  IF p.raised THEN Raise(mem)
             ELSE UpdatePrice(mem, data.asset_id, p.val, None)

\* lines 89-94
TradeBody(mem, data) ==
    IF IsNone(data.price) THEN Ok(mem)
    ELSE LET p == FloatOf(data.price)
         IN  IF p.raised THEN Raise(mem)
             ELSE UpdatePrice(mem, data.asset_id, p.val, p.val)

\* lines 68-94 with the last branch an else
MessageBodyElseTrade(mem, data) ==
    IF ~data.dict THEN Raise(mem)
    ELSE IF data.event_type = "book" THEN BookBody(mem, data)
    ELSE IF data.event_type = "price_change" THEN ChangesBody(mem, data.price_changes)
    ELSE TradeBody(mem, data)

\* lines 68-94, the body of the try
MessageBody(mem, data) ==
    IF ~data.dict THEN Raise(mem)
    ELSE IF data.event_type = "book" THEN BookBody(mem, data)
    ELSE IF data.event_type = "price_change" THEN ChangesBody(mem, data.price_changes)
    ELSE IF data.event_type = "last_trade_price" THEN TradeBody(mem, data)
    ELSE Ok(mem)

\* _process_message without lines 95-96
ProcessMessageNoCatch(mem, data) == MessageBody(mem, data)

\* _process_message(data): what the body wrote stays written, no exception leaves
ProcessMessage(mem, data) == Ok(MessageBody(mem, data).mem)

\* line 59 as items = raw: the loop then goes through the keys of the object
ItemsOfFrameNoWrap(frame) == IF frame.list THEN frame.arr ELSE <<NonDict>>

\* line 59: items = raw if isinstance(raw, list) else [raw]
ItemsOfFrame(frame) == IF frame.list THEN frame.arr ELSE <<frame.obj>>

\* lines 60-61 going through the items last to first
RECURSIVE ProcessItemsReversed(_, _)
ProcessItemsReversed(mem, items) ==
    IF items = <<>> THEN Ok(mem)
    ELSE LET r == ProcessMessage(mem, items[Len(items)])
         IN  IF r.raised THEN r
             ELSE ProcessItemsReversed(r.mem, SubSeq(items, 1, Len(items) - 1))

\* lines 60-61: the loop stops at the first item that raises
RECURSIVE ProcessItems(_, _)
ProcessItems(mem, items) ==
    IF items = <<>> THEN Ok(mem)
    ELSE LET r == ProcessMessage(mem, Head(items))
         IN  IF r.raised THEN r ELSE ProcessItems(r.mem, Tail(items))

\* lines 57-61, the body of the try (json.loads raises for text that is no JSON)
OnMessageBody(mem, frame) ==
    IF ~frame.valid THEN Raise(mem)
    ELSE ProcessItems(mem, ItemsOfFrame(frame))

\* _on_message(ws, message): lines 62-63 swallow what the body raises
OnMessageResult(mem, frame) == Ok(OnMessageBody(mem, frame).mem)

----------------------------------------------------------------------------
(* The feed: frames handed to _on_message *)

GoodJ == {JStr(p) : p \in Prices}
OddJ == {JAbsent, JNull, JEmpty, JBad, JNum(0), JNum(2)}

Sides ==
    {<<>>, <<Level(JStr(2))>>, <<Level(JStr(0))>>,
     <<Level(JStr(4)), Level(JStr(2))>>, <<Level(JAbsent)>>}

BookMsgs ==
    {Book(a, b, k) : a \in Keys, b \in Sides, k \in Sides}
    \cup {Book("A", <<Level(w)>>, <<>>) : w \in {JNull, JEmpty, JBad, JNum(2)}}
    \cup {BookAlias("A", <<>>, <<>>, <<Level(JStr(2))>>, <<Level(JStr(4))>>),
          BookAlias("A", <<Level(JStr(2))>>, <<>>, <<>>, <<Level(JStr(4))>>),
          Book(EmptyId, <<Level(JStr(2))>>, <<Level(JStr(4))>>),
          Book(BadId, <<Level(JStr(2))>>, <<Level(JStr(4))>>)}

OneChanges ==
    {Change(a, b, k) : a \in Keys, b \in GoodJ \cup {JNull}, k \in GoodJ \cup {JNull}}
    \cup {Change("A", w, JNull) : w \in OddJ}
    \cup {Change("A", JStr(2), w) : w \in OddJ}
    \cup {Change(EmptyId, JStr(2), JStr(4)), Change(NullId, JStr(2), JStr(4)),
          Change(BadId, JStr(2), JStr(4)), NonDictChange}

PairChanges ==
    {Change("A", b, JNull) : b \in GoodJ}
    \cup {Change("A", JNull, k) : k \in GoodJ}
    \cup {Change("A", JBad, JNull), Change("B", JStr(4), JStr(2))}

PriceChangeMsgs ==
    {PriceChange(<<c>>) : c \in OneChanges}
    \cup {PriceChange(<<c, d>>) : c \in PairChanges, d \in PairChanges}
    \cup {PriceChange(<<>>)}

TradeMsgs ==
    {Trade(a, w) : a \in Keys, w \in GoodJ \cup OddJ}
    \cup {Trade(EmptyId, JStr(2))}

OtherMsgs == {OtherKind, NoKind, BlankMsg, NonDict}

Msgs == BookMsgs \cup PriceChangeMsgs \cup TradeMsgs \cup OtherMsgs

\* the messages put together in one array
BatchMsgs ==
    {Book("A", <<Level(JAbsent)>>, <<Level(JStr(2))>>),
     Book("A", <<Level(JBad)>>, <<>>),
     Trade("A", JBad),
     PriceChange(<<Change("A", JStr(2), JNull), Change("A", JBad, JNull)>>),
     NonDict, OtherKind,
     Book("A", <<Level(JStr(2))>>, <<Level(JStr(4))>>),
     Book("B", <<Level(JStr(4))>>, <<>>),
     Trade("A", JStr(4)),
     PriceChange(<<Change("B", JNull, JStr(2))>>)}

Frames ==
    {BadFrame, ArrFrame(<<>>)}
    \cup {ObjFrame(m) : m \in Msgs}
    \cup {ArrFrame(<<m>>) : m \in BatchMsgs}
    \cup {ArrFrame(<<m, n>>) : m \in BatchMsgs, n \in BatchMsgs}

Handled(op) == op.op = "frame"

\* _on_message(ws, frame), called by the socket thread when a frame arrives;
\* the frame and whether an exception left the handler are kept
OnMessage(frame) ==
    LET r == OnMessageResult(Mem, frame)
    IN  /\ ~Handled(lastOp)
        /\ live_prices' = r.mem.store
        /\ heap' = r.mem.heap
        /\ lastOp' = [op |-> "frame", frame |-> frame, raised |-> r.raised]
        /\ UNCHANGED <<now, hist, readerVars, connVars, merge, betVars, callers, lockVars>>

\* the handler returns to the socket's receive loop
Return ==
    /\ Handled(lastOp)
    /\ lastOp' = [op |-> "idle"]
    /\ UNCHANGED <<live_prices, heap, now, hist, readerVars, connVars, merge, betVars, callers, lockVars>>

NextFeed ==
    \/ ~Handled(lastOp) /\ \E f \in Frames : OnMessage(f)
    \/ Return

SpecFeed == Init /\ [][NextFeed]_vars

----------------------------------------------------------------------------
(* What a well-formed message carries, read off its fields *)

GoodSide(levels) == levels = <<>> \/ levels[1].price \in GoodJ
GoodChange(ch) ==
    /\ ch.dict /\ ch.asset_id \in Keys
    /\ ch.best_bid \in GoodJ \cup {JNull}
    /\ ch.best_ask \in GoodJ \cup {JNull}

\* a message in the wire format: known kind, instrument id, decimal strings
WellFormed(m) ==
    /\ m.dict
    /\ \/ /\ m.event_type = "book" /\ m.asset_id \in Keys
          /\ m.buys = <<>> /\ m.sells = <<>>
          /\ GoodSide(m.bids) /\ GoodSide(m.asks)
       \/ /\ m.event_type = "price_change"
          /\ \A i \in 1..Len(m.price_changes) : GoodChange(m.price_changes[i])
       \/ /\ m.event_type = "last_trade_price" /\ m.asset_id \in Keys
          /\ m.price \in GoodJ

Upd(a, b, k) == [asset_id |-> a, bid |-> b, ask |-> k]
SidePrice(levels) == IF levels = <<>> THEN None ELSE levels[1].price.v
ChangePrice(w) == IF w.t = "str" THEN w.v ELSE None

\* the updates a well-formed message carries, in the order it lists them
Carried(m) ==
    IF m.event_type = "book"
    THEN <<Upd(m.asset_id, SidePrice(m.bids), SidePrice(m.asks))>>
    ELSE IF m.event_type = "last_trade_price"
    THEN <<Upd(m.asset_id, m.price.v, m.price.v)>>
    ELSE [i \in 1..Len(m.price_changes) |->
            Upd(m.price_changes[i].asset_id,
                ChangePrice(m.price_changes[i].best_bid),
                ChangePrice(m.price_changes[i].best_ask))]

\* the messages of a frame, in the order of arrival
Arrived(frame) == IF frame.list THEN frame.arr ELSE <<frame.obj>>

RECURSIVE CarriedAll(_)
CarriedAll(ms) == IF ms = <<>> THEN <<>> ELSE Carried(Head(ms)) \o CarriedAll(Tail(ms))

RECURSIVE RecordAll(_, _)
RecordAll(h, us) ==
    IF us = <<>> THEN h
    ELSE RecordAll(Record(h, Head(us).asset_id, Head(us).bid, Head(us).ask), Tail(us))

\* a message that fails to decode: no object, a book level without a usable
\* price, a trade price or a delta side that is no number
BadLevel(levels) == levels # <<>> /\ levels[1].price \in {JAbsent, JNull, JEmpty, JBad}
Malformed(m) ==
    \/ ~m.dict
    \/ m.event_type = "book" /\ (BadLevel(m.bids) \/ BadLevel(m.asks))
    \/ m.event_type = "last_trade_price" /\ m.price \in {JEmpty, JBad}
    \/ /\ m.event_type = "price_change"
       /\ \E i \in 1..Len(m.price_changes) :
            \/ ~m.price_changes[i].dict
            \/ m.price_changes[i].best_bid = JBad
            \/ m.price_changes[i].best_ask = JBad

\* the store holds, for every side the updates us supply, the value of the
\* last of them that supplies it
ShowsLatest(us) ==
    \A i \in 1..Len(us) :
        /\ (us[i].bid # None /\ \A j \in (i+1)..Len(us) :
                us[j].asset_id # us[i].asset_id \/ us[j].bid = None)
            => /\ us[i].asset_id \in DOMAIN live_prices
               /\ Entry(us[i].asset_id).bid = us[i].bid
        /\ (us[i].ask # None /\ \A j \in (i+1)..Len(us) :
                us[j].asset_id # us[i].asset_id \/ us[j].ask = None)
            => /\ us[i].asset_id \in DOMAIN live_prices
               /\ Entry(us[i].asset_id).ask = us[i].ask

----------------------------------------------------------------------------
(* The feed, with the sides each frame supplies noted in hist *)

OrderFrames ==
    {f \in Frames : f.valid /\ \A i \in 1..Len(Arrived(f)) : WellFormed(Arrived(f)[i])}

\* _on_message for a well-formed frame
OnMessageTraced(frame) ==
    LET r == OnMessageResult(Mem, frame)
    IN  /\ ~Handled(lastOp)
        /\ live_prices' = r.mem.store
        /\ heap' = r.mem.heap
        /\ lastOp' = [op |-> "frame", frame |-> frame, raised |-> r.raised]
        /\ hist' = RecordAll(hist, CarriedAll(Arrived(frame)))
        /\ UNCHANGED <<now, readerVars, connVars, merge, betVars, callers, lockVars>>

NextOrder ==
    \/ ~Handled(lastOp) /\ \E f \in OrderFrames : OnMessageTraced(f)
    \/ Return

SpecOrder == Init /\ [][NextOrder]_vars

----------------------------------------------------------------------------
(* The price store: statements about _update_price *)

EntryNext(k) == heap'[live_prices'[k]]

IsUpdate(op) == op.op = "update"
OneSidedCall(op) == (op.bid = None) # (op.ask = None)
NoOpCall(op) == ~TruthyId(op.asset_id) \/ (op.bid = None /\ op.ask = None)

\* C1: every entry of the store has a bid and an ask, neither of them None,
\* after every sequence of _update_price calls.
C1_BothSidesStored ==
    \A k \in DOMAIN live_prices : Entry(k).bid # None /\ Entry(k).ask # None

\* an entry made by a call that gave the bid alone: its ask is the mirrored bid
C1_Witness ==
    /\ IsUpdate(lastOp)
    /\ lastOp.asset_id \in DOMAIN live_prices
    /\ lastOp.bid # None /\ lastOp.ask = None
    /\ Entry(lastOp.asset_id).ask = lastOp.bid

\* C2: the mid of every entry is the arithmetic mean of its bid and its ask,
\* for all bids and asks in 0..1, the boundaries included.
C2_MidIsMean ==
    \A k \in DOMAIN live_prices : 2 * Entry(k).mid = Entry(k).bid + Entry(k).ask

\* C4: a call with an empty or null asset id, or with neither a bid nor an
\* ask, changes nothing: not the key set, not an entry, not a time stamp.
C4_NoOpCall ==
    [][ (IsUpdate(lastOp') /\ NoOpCall(lastOp'))
            => (live_prices' = live_prices /\ heap' = heap) ]_vars

\* a call with no asset id but with prices, made on a store that holds an
\* entry older than the call
C4_Witness ==
    /\ IsUpdate(lastOp)
    /\ ~TruthyId(lastOp.asset_id)
    /\ lastOp.bid # None /\ lastOp.ask # None
    /\ \E k \in DOMAIN live_prices : Entry(k).updated < now

\* C5: a call that gives one side for an asset id that has an entry replaces
\* that side, keeps the other side as stored, and leaves every other entry
\* as it was.
C5_OneSidedUpdate ==
    [][ (/\ IsUpdate(lastOp')
         /\ lastOp'.asset_id \in DOMAIN live_prices
         /\ OneSidedCall(lastOp'))
        => LET k == lastOp'.asset_id
           IN  /\ k \in DOMAIN live_prices'
               /\ lastOp'.bid # None =>
                    /\ EntryNext(k).bid = lastOp'.bid
                    /\ EntryNext(k).ask = Entry(k).ask
               /\ lastOp'.ask # None =>
                    /\ EntryNext(k).ask = lastOp'.ask
                    /\ EntryNext(k).bid = Entry(k).bid
               /\ \A j \in DOMAIN live_prices \ {k} :
                    j \in DOMAIN live_prices' /\ EntryNext(j) = Entry(j) ]_vars

\* an ask alone given to an entry whose bid differs from it, beside another entry
C5_Witness ==
    /\ IsUpdate(lastOp)
    /\ DOMAIN live_prices = Keys
    /\ lastOp.asset_id \in Keys
    /\ lastOp.bid = None /\ lastOp.ask # None
    /\ Entry(lastOp.asset_id).ask = lastOp.ask
    /\ Entry(lastOp.asset_id).bid # lastOp.ask

----------------------------------------------------------------------------
(* One side only *)

OneSided(k) == hist[k].everBid # hist[k].everAsk
KnownSide(k) == IF hist[k].everBid THEN hist[k].lastBid ELSE hist[k].lastAsk

\* C3 as stated: while one side only was ever supplied for an asset id, the
\* mid is the latest value of that side and the other side mirrors it.
C3_MidIsKnownSide ==
    \A k \in DOMAIN live_prices :
        OneSided(k) =>
            /\ Entry(k).mid = KnownSide(k)
            /\ Entry(k).bid = KnownSide(k)
            /\ Entry(k).ask = KnownSide(k)

\* C3 as amended: while one side only was ever supplied for an asset id, that
\* side holds the latest value supplied and the other side holds the value of
\* the first call; the mid is the latest value when that equals the first.
C3_OtherSideKeepsFirst ==
    \A k \in DOMAIN live_prices :
        OneSided(k) =>
            /\ hist[k].everBid =>
                    Entry(k).bid = hist[k].lastBid /\ Entry(k).ask = hist[k].first
            /\ hist[k].everAsk =>
                    Entry(k).ask = hist[k].lastAsk /\ Entry(k).bid = hist[k].first
            /\ KnownSide(k) = hist[k].first => Entry(k).mid = KnownSide(k)

\* bids alone, the latest differing from the first
C3_Witness ==
    \E k \in DOMAIN live_prices :
        /\ hist[k].everBid /\ ~hist[k].everAsk
        /\ hist[k].lastBid # hist[k].first
        /\ Entry(k).ask = hist[k].first

----------------------------------------------------------------------------
(* Readers and the writer *)

\* C7: the dict get_all_live_prices returned is never changed by a later
\* _update_price: it keeps its keys and the bid, ask and mid of each entry.
C7_CopyIsStable == ~held.none => ViewOf(held) = seen

\* the reader holds a dict whose entry for a key differs from the store's
C7_Witness ==
    /\ ~held.none
    /\ \E k \in DOMAIN seen :
            /\ k \in DOMAIN live_prices
            /\ Entry(k).bid # seen[k].bid
    /\ DOMAIN seen # DOMAIN live_prices

----------------------------------------------------------------------------
(* The feed: statements about _on_message and _process_message *)

Handling == ~Handled(lastOp) /\ Handled(lastOp')

\* C6: updates are applied in the order of arrival, the elements of a frame
\* in list order: each side of each entry holds the value of the latest
\* update that supplied it.
C6_LastWriteWins ==
    \A k \in Keys :
        /\ hist[k].everBid =>
                k \in DOMAIN live_prices /\ Entry(k).bid = hist[k].lastBid
        /\ hist[k].everAsk =>
                k \in DOMAIN live_prices /\ Entry(k).ask = hist[k].lastAsk

\* a frame of two messages that give different bids for one instrument
C6_Witness ==
    /\ Handled(lastOp)
    /\ lastOp.frame.list /\ Len(lastOp.frame.arr) = 2
    /\ LET us == CarriedAll(lastOp.frame.arr)
       IN  /\ Len(us) = 2
           /\ us[1].asset_id = us[2].asset_id
           /\ us[1].bid # None /\ us[2].bid # None /\ us[1].bid # us[2].bid
           /\ Entry(us[2].asset_id).bid = us[2].bid

\* C8: a malformed message does not keep the valid message after it in the
\* same frame from being applied, and no exception leaves _on_message.
C8_FailureIsolated ==
    Handled(lastOp) =>
        /\ ~lastOp.raised
        /\ LET f == lastOp.frame
           IN  (/\ f.valid /\ f.list /\ Len(f.arr) = 2
                /\ Malformed(f.arr[1])
                /\ WellFormed(f.arr[2]))
               => ShowsLatest(Carried(f.arr[2]))

\* a book with a level that has no price, then a valid book for the same
\* instrument, which is in the store
C8_Witness ==
    /\ Handled(lastOp)
    /\ lastOp.frame.list /\ Len(lastOp.frame.arr) = 2
    /\ lastOp.frame.arr[1].event_type = "book"
    /\ lastOp.frame.arr[1].bids = <<Level(JAbsent)>>
    /\ lastOp.frame.arr[2] = Book("A", <<Level(JStr(2))>>, <<Level(JStr(4))>>)
    /\ "A" \in DOMAIN live_prices
    /\ Entry("A").bid = 2 /\ Entry("A").ask = 4

\* C9: a null side of a delta is passed on as None and leaves that side of
\* the entry as it was; a delta with the bid b alone and then a delta with
\* the ask a alone, on an empty store, give bid b, ask a, mid (a + b) / 2.
C9_NullSideNoChange ==
    [][ (/\ Handling
         /\ lastOp'.frame.valid /\ ~lastOp'.frame.list
         /\ lastOp'.frame.obj.event_type = "price_change"
         /\ WellFormed(lastOp'.frame.obj))
        => LET chs == lastOp'.frame.obj.price_changes
           IN  /\ (/\ Len(chs) = 1
                   /\ chs[1].asset_id \in DOMAIN live_prices)
                  => LET k == chs[1].asset_id
                     IN  /\ (chs[1].best_bid = JNull /\ chs[1].best_ask # JNull)
                                => EntryNext(k).bid = Entry(k).bid
                         /\ (chs[1].best_ask = JNull /\ chs[1].best_bid # JNull)
                                => EntryNext(k).ask = Entry(k).ask
               /\ (/\ Len(chs) = 2
                   /\ live_prices = <<>>
                   /\ chs[1].asset_id = chs[2].asset_id
                   /\ chs[1].best_bid # JNull /\ chs[1].best_ask = JNull
                   /\ chs[2].best_bid = JNull /\ chs[2].best_ask # JNull)
                  => LET k == chs[1].asset_id
                     IN  /\ k \in DOMAIN live_prices'
                         /\ EntryNext(k).bid = chs[1].best_bid.v
                         /\ EntryNext(k).ask = chs[2].best_ask.v
                         /\ 2 * EntryNext(k).mid
                                = chs[1].best_bid.v + chs[2].best_ask.v ]_vars

\* C10: a book message gives the first bid level and the first ask level; a
\* book with bid levels only, for an instrument that has no entry, gives
\* bid = ask = mid = the first bid price, and likewise with ask levels only.
C10_BookFirstLevels ==
    [][ (/\ Handling
         /\ lastOp'.frame.valid
         /\ Len(Arrived(lastOp'.frame)) = 1
         /\ Arrived(lastOp'.frame)[1].event_type = "book"
         /\ WellFormed(Arrived(lastOp'.frame)[1]))
        => LET m == Arrived(lastOp'.frame)[1]
               k == m.asset_id
           IN  /\ m.bids # <<>> =>
                    k \in DOMAIN live_prices' /\ EntryNext(k).bid = m.bids[1].price.v
               /\ m.asks # <<>> =>
                    k \in DOMAIN live_prices' /\ EntryNext(k).ask = m.asks[1].price.v
               /\ (k \notin DOMAIN live_prices /\ m.bids # <<>> /\ m.asks = <<>>)
                    => /\ EntryNext(k).ask = m.bids[1].price.v
                       /\ EntryNext(k).mid = m.bids[1].price.v
               /\ (k \notin DOMAIN live_prices /\ m.asks # <<>> /\ m.bids = <<>>)
                    => /\ EntryNext(k).bid = m.asks[1].price.v
                       /\ EntryNext(k).mid = m.asks[1].price.v ]_vars

\* a book with two bid levels and no ask level: the entry is the first level
C10_Witness ==
    /\ Handled(lastOp)
    /\ lastOp.frame = ObjFrame(Book("B", <<Level(JStr(4)), Level(JStr(2))>>, <<>>))
    /\ DOMAIN live_prices = {"B"}
    /\ Entry("B").bid = 4 /\ Entry("B").ask = 4 /\ Entry("B").mid = 4

KnownKinds == {"book", "price_change", "last_trade_price"}

\* the step leaves the store as the call result r has it
StoreBecomes(r) == live_prices' = r.mem.store /\ heap' = r.mem.heap

\* C11: a last_trade_price message with a price p makes the entry of its
\* instrument bid = ask = mid = p, whatever the entry was; with no price it
\* changes nothing.
C11_TradeIsBothSides ==
    [][ (/\ Handling
         /\ lastOp'.frame.valid
         /\ Len(Arrived(lastOp'.frame)) = 1
         /\ Arrived(lastOp'.frame)[1].dict
         /\ Arrived(lastOp'.frame)[1].event_type = "last_trade_price"
         /\ Arrived(lastOp'.frame)[1].asset_id \in Keys)
        => LET m == Arrived(lastOp'.frame)[1]
               k == m.asset_id
           IN  /\ m.price.t \in {"str", "num"} =>
                    /\ k \in DOMAIN live_prices'
                    /\ EntryNext(k).bid = m.price.v
                    /\ EntryNext(k).ask = m.price.v
                    /\ EntryNext(k).mid = m.price.v
               /\ IsNone(m.price) =>
                    live_prices' = live_prices /\ heap' = heap ]_vars

\* a trade at 1.0 for an instrument, beside another entry
C11_Witness ==
    /\ Handled(lastOp)
    /\ lastOp.frame = ObjFrame(Trade("A", JStr(4)))
    /\ DOMAIN live_prices = Keys
    /\ Entry("A").bid = 4 /\ Entry("A").ask = 4 /\ Entry("A").mid = 4
    /\ Entry("B").bid # Entry("B").ask

\* C12: a message of an unknown kind, or of no kind, is ignored: alone it
\* leaves the store as it was and raises nothing, and a frame that holds it
\* before another message does what that other message alone does.
C12_UnknownKindIgnored ==
    [][ (/\ Handling
         /\ lastOp'.frame.valid
         /\ Len(Arrived(lastOp'.frame)) >= 1
         /\ Arrived(lastOp'.frame)[1].dict
         /\ Arrived(lastOp'.frame)[1].event_type \notin KnownKinds)
        => LET ms == Arrived(lastOp'.frame)
           IN  /\ ~lastOp'.raised
               /\ Len(ms) = 1 => (live_prices' = live_prices /\ heap' = heap)
               /\ Len(ms) = 2 => StoreBecomes(OnMessageResult(Mem, ObjFrame(ms[2]))) ]_vars

\* a message of an unknown kind, then a book that is applied
C12_Witness ==
    /\ Handled(lastOp)
    /\ lastOp.frame = ArrFrame(<<OtherKind, Book("B", <<Level(JStr(4))>>, <<>>)>>)
    /\ "B" \in DOMAIN live_prices
    /\ Entry("B").bid = 4
    /\ "A" \notin DOMAIN live_prices

\* C13: a frame that holds one message m does what the frame [m] does, and a
\* frame [m1, m2] does what m1 and then m2 do as frames of their own.
C13_BatchIsSequence ==
    [][ (Handling /\ lastOp'.frame.valid)
        => LET f == lastOp'.frame
           IN  /\ ~f.list => StoreBecomes(OnMessageResult(Mem, ArrFrame(<<f.obj>>)))
               /\ (f.list /\ Len(f.arr) = 1) =>
                    StoreBecomes(OnMessageResult(Mem, ObjFrame(f.arr[1])))
               /\ (f.list /\ Len(f.arr) = 2) =>
                    StoreBecomes(OnMessageResult(
                        OnMessageResult(Mem, ObjFrame(f.arr[1])).mem,
                        ObjFrame(f.arr[2]))) ]_vars

\* a frame of two messages, both applied
C13_Witness ==
    /\ Handled(lastOp)
    /\ lastOp.frame = ArrFrame(<<Trade("A", JStr(4)),
                                 PriceChange(<<Change("B", JNull, JStr(2))>>)>>)
    /\ DOMAIN live_prices = Keys
    /\ Entry("A").bid = 4 /\ Entry("B").ask = 2

----------------------------------------------------------------------------
(* The connection thread: start_live_prices and _run_ws *)

MaxAssets == 2     \* _max_assets, 500 in the source, scaled to the ids below
MaxIds == 3        \* start_live_prices is called with lists of 0..MaxIds items
MaxThreads == 2    \* threads started in one run
MaxSleeps == 9     \* the count of reconnect waits stops here
MaxAge == 2        \* a session is followed for MaxAge keepalive intervals

Scale == 64        \* times are counted in 1/64 of a second: 5 * 1.5^k is exact

TokenIds == {"A", "B", "C"}
RawIds == TokenIds \cup {EmptyId, NullId}
IdLists == UNION {[1..n -> RawIds] : n \in 0..MaxIds}

NoneStr == "None"

\* str(a) of a string or of None
Str(a) == IF a = NullId THEN NoneStr ELSE a

Min(a, b) == IF a <= b THEN a ELSE b
Range(l) == {l[i] : i \in DOMAIN l}

\* l[:n]
Take(l, n) == SubSeq(l, 1, Min(n, Len(l)))

\* [f(a) for a in l]
StrAll(l) == [i \in DOMAIN l |-> Str(l[i])]

\* str(a) for a in asset_ids if a
Wanted(asset_ids) == StrAll(SelectSeq(asset_ids, TruthyId))

\* list(set(g)): the members once each, in an order the language leaves open
IdOrders(S) ==
    {l \in [1..Cardinality(S) -> S] : \A i, j \in DOMAIN l : l[i] = l[j] => i = j}

\* line 153 without the set: the list keeps its repeats
StartIdsNoSet(asset_ids) == {Take(Wanted(asset_ids), MaxAssets)}

\* line 153 without the slice
StartIdsNoCap(asset_ids) == IdOrders(Range(Wanted(asset_ids)))

\* line 153: the lists ids can be
StartIds(asset_ids) ==
    {Take(l, MaxAssets) : l \in IdOrders(Range(Wanted(asset_ids)))}

\* line 125: the list _run_ws subscribes with
SubList(asset_ids) == StrAll(SelectSeq(Take(asset_ids, MaxAssets), TruthyId))

\* lines 129-130
StartBackoff == 5 * Scale
max_backoff == 60 * Scale

\* the value of line 147 when the factor is 2
NextBackoffDouble(b) == Min(2 * b, max_backoff)

\* line 147: min(backoff * 1.5, max_backoff)
NextBackoff(b) == IF 3 * b >= 2 * max_backoff THEN max_backoff ELSE (3 * b) \div 2

\* a thread object: its position in _run_ws, its locals, and its session
NewThread(ids) ==
    [pc |-> "start", ids |-> ids, sub |-> <<>>, backoff |-> 0, n |-> 0,
     wait |-> 0, sent |-> 0, age |-> 0, pings |-> 0]
DeadThread == [NewThread(<<>>) EXCEPT !.pc = "dead"]

\* Thread.is_alive(): false before start() and after the target returns
Alive(th) == th.pc \notin {"new", "dead"}

\* _ws_thread and _ws_thread.is_alive()
ThreadAlive == ws_thread # 0 /\ Alive(threads[ws_thread])

Started(op) == op.op = "start"

\* start_live_prices(asset_ids), lines 150-161, called by a request handler;
\* the argument is kept
StartLivePrices(asset_ids) ==
    /\ ThreadAlive \/ Len(threads) < MaxThreads
    /\ lastOp' = [op |-> "start", ids |-> asset_ids]
    /\ UNCHANGED <<storeVars, merge, betVars, callers, lockVars>>
    /\ IF Wanted(asset_ids) = <<>>
       THEN UNCHANGED connVars
       ELSE \E ids \in StartIds(asset_ids) :
              /\ subscribed_ids' = Range(ids)
              /\ IF ThreadAlive
                 THEN UNCHANGED <<threads, ws_thread>>
                 ELSE /\ threads' = Append(threads, NewThread(ids))
                      /\ ws_thread' = Len(threads) + 1

\* start_live_prices returns to its caller
StartReturn ==
    /\ Started(lastOp)
    /\ lastOp' = [op |-> "idle"]
    /\ UNCHANGED <<storeVars, connVars, merge, betVars, callers, lockVars>>

\* thread t goes on as th; nothing else moves
Step(t, th) ==
    /\ threads' = [threads EXCEPT ![t] = th]
    /\ UNCHANGED <<storeVars, lastOp, ws_thread, subscribed_ids, merge, betVars, callers, lockVars>>

\* lines 120-130: the thread enters _run_ws; the import fails where the
\* websocket package is not installed
RunWs(t) ==
    /\ threads[t].pc = "start"
    /\ \/ Step(t, DeadThread)
       \/ LET ids == SubList(threads[t].ids)
          IN  IF ids = <<>>
              THEN Step(t, DeadThread)
              ELSE Step(t, [threads[t] EXCEPT !.pc = "connecting", !.sub = ids,
                                              !.backoff = StartBackoff])

\* lines 133-143 with an on_open that sends nothing
OpenedSilent(t) ==
    /\ threads[t].pc = "connecting"
    /\ Step(t, [threads[t] EXCEPT !.pc = "open"])

\* lines 133-143 with an on_open that subscribes to _subscribed_ids
OpenedUsesRecorded(t) ==
    /\ threads[t].pc = "connecting"
    /\ Step(t, [threads[t] EXCEPT
                  !.pc = "open", !.sent = 1,
                  !.sub = CHOOSE l \in IdOrders(subscribed_ids) : TRUE])

\* lines 133-143: the socket opens and on_open sends the subscribe message
Opened(t) ==
    /\ threads[t].pc = "connecting"
    /\ Step(t, [threads[t] EXCEPT !.pc = "open", !.sent = 1])

\* lines 143-145 with the exception let through: the thread ends
FailedEscapes(t) ==
    /\ threads[t].pc = "connecting"
    /\ Step(t, DeadThread)

\* lines 136-145: the connect fails, by an exception or by run_forever
\* returning at once
Failed(t) ==
    /\ threads[t].pc = "connecting"
    /\ Step(t, [threads[t] EXCEPT !.pc = "sleep"])

\* the session ends and the handler drops what the feed had stored
ClosedClears(t) ==
    /\ threads[t].pc = "open"
    /\ threads' = [threads EXCEPT ![t] = [threads[t] EXCEPT !.pc = "sleep",
                                          !.sent = 0, !.age = 0, !.pings = 0]]
    /\ live_prices' = <<>>
    /\ UNCHANGED <<heap, now, hist, readerVars, lastOp, ws_thread,
                   subscribed_ids, merge, betVars, callers, lockVars>>

\* lines 143-145 with the backoff set back after a session that was open
ClosedResetsBackoff(t) ==
    /\ threads[t].pc = "open"
    /\ Step(t, [threads[t] EXCEPT !.pc = "sleep", !.sent = 0, !.age = 0,
                                  !.pings = 0, !.backoff = StartBackoff])

\* lines 143-145: the open session ends, by an error or a close
Closed(t) ==
    /\ threads[t].pc = "open"
    /\ Step(t, [threads[t] EXCEPT !.pc = "sleep", !.sent = 0, !.age = 0,
                                  !.pings = 0])

\* lines 146-147 and the next turn of the loop: the wait, the new backoff,
\* and the next connect
Sleep(t) ==
    /\ threads[t].pc = "sleep"
    /\ Step(t, [threads[t] EXCEPT !.pc = "connecting",
                                  !.wait = Min(threads[t].backoff, max_backoff),
                                  !.backoff = NextBackoff(threads[t].backoff),
                                  !.n = Min(threads[t].n + 1, MaxSleeps)])

\* one keepalive interval (10 time units, line 110) passes in an open session
SessionTick(t) ==
    /\ threads[t].pc = "open"
    /\ threads[t].age < MaxAge
    /\ Step(t, [threads[t] EXCEPT !.age = threads[t].age + 1])

\* _ping_loop, lines 107-116: one turn of its loop.  No thread runs it: the
\* function is called nowhere, and run_forever is given no ping interval.
PingLoop(t) ==
    /\ threads[t].pc = "open"
    /\ threads[t].pings < threads[t].age
    /\ Step(t, [threads[t] EXCEPT !.pings = threads[t].pings + 1])

\* the steps thread t takes by itself, whatever the upstream does
ThreadRuns(t) == t \in DOMAIN threads /\ (RunWs(t) \/ Sleep(t))

ThreadStep(t) == RunWs(t) \/ Opened(t) \/ Failed(t) \/ Closed(t) \/ Sleep(t)

\* the starter, over every argument list, and the threads it starts, each
\* followed to the end of its first session
NextStart ==
    \/ ~Started(lastOp) /\ \E ids \in IdLists : StartLivePrices(ids)
    \/ StartReturn
    \/ ~Started(lastOp) /\ \E t \in DOMAIN threads :
            RunWs(t) \/ Opened(t) \/ Failed(t) \/ Closed(t)

SpecStart == Init /\ [][NextStart]_vars

\* one or two ids, and the life of the thread that subscribes to them
ConnLists == {<<"A">>, <<"B", NullId, "A">>}

NextConn ==
    \/ ~Started(lastOp) /\ \E ids \in ConnLists : StartLivePrices(ids)
    \/ StartReturn
    \/ \E t \in DOMAIN threads : ThreadStep(t) \/ SessionTick(t)

SpecConn == Init /\ [][NextConn]_vars

\* a thread that can take a step of _run_ws is scheduled in the end, and
\* time.sleep returns
SpecConnFair == SpecConn /\ \A t \in 1..MaxThreads : WF_vars(ThreadRuns(t))

----------------------------------------------------------------------------
(* Claims about the connection thread *)

PingEvery == 10    \* the interval of _ping_loop, in time units

InLoop(t) ==
    t \in DOMAIN threads /\ threads[t].pc \in {"connecting", "open", "sleep"}

\* C14: a session that has been open for longer than 10 time units has sent
\* at least one keepalive.
C14_KeepaliveSent ==
    \A t \in DOMAIN threads :
        (threads[t].pc = "open" /\ threads[t].age * PingEvery > PingEvery)
            => threads[t].pings >= 1

\* min(5 * 1.5^(n-1), 60), in 1/Scale of a time unit
WaitBefore(n) ==
    LET num == 5 * Scale * 3^(n - 1)
        den == 2^(n - 1)
    IN  IF num >= 60 * Scale * den THEN 60 * Scale ELSE num \div den

\* C15: the wait before reconnect attempt n is min(5 * 1.5^(n-1), 60); the
\* waits never decrease and never exceed 60.  (The count n stops at
\* MaxSleeps, where the wait has long reached 60.)
C15_BackoffWaits ==
    [][ \A t \in DOMAIN threads :
          (threads[t].pc = "sleep" /\ threads'[t].pc = "connecting")
            => /\ threads'[t].wait = WaitBefore(threads'[t].n)
               /\ threads'[t].wait >= threads[t].wait
               /\ threads'[t].wait <= 60 * Scale ]_vars

\* the seventh wait, 5 * 1.5^6 = 56.953125, the last one under the cap
C15_Witness ==
    \E t \in DOMAIN threads :
        /\ threads[t].pc = "connecting"
        /\ threads[t].n = 7
        /\ threads[t].wait = 3645
        /\ threads[t].backoff = max_backoff

\* C16: a thread that is in its reconnect loop stays in it, and after every
\* end of a session or failed connect it makes a new connect attempt.
C16_ReconnectsForever ==
    \A t \in 1..MaxThreads :
        /\ [](InLoop(t) => [](InLoop(t)))
        /\ (t \in DOMAIN threads /\ threads[t].pc = "sleep")
              ~> (t \in DOMAIN threads /\ threads[t].pc = "connecting")

\* a thread connected again after two waits
C16_Witness ==
    \E t \in DOMAIN threads :
        threads[t].pc = "open" /\ threads[t].n = 2 /\ threads[t].sent = 1

\* a start_live_prices call is made in this step
Calling == ~Started(lastOp) /\ Started(lastOp')

\* the ids of the call that are neither empty nor null
Asked == Range(lastOp'.ids) \ {EmptyId, NullId}

\* a thread past line 128 subscribes with the list it was started with
SubIsArgs ==
    \A t \in DOMAIN threads : InLoop(t) => threads[t].sub = threads[t].ids

\* C17: a call with a non-empty id and no live thread starts exactly one
\* thread, whose subscription is the filtered, deduplicated, capped id set
\* of the call; a call with no non-empty id starts nothing and changes
\* nothing.
C17_StartsOneThread ==
    [][ /\ (Calling /\ Asked # {} /\ ~ThreadAlive) =>
              /\ Len(threads') = Len(threads) + 1
              /\ SubSeq(threads', 1, Len(threads)) = threads
              /\ ws_thread' = Len(threads')
              /\ LET th == threads'[Len(threads')]
                 IN  /\ th.pc = "start"
                     /\ Range(th.ids) \subseteq Asked
                     /\ Len(th.ids) = Min(Cardinality(Asked), MaxAssets)
                     /\ Cardinality(Range(th.ids)) = Len(th.ids)
        /\ (Calling /\ Asked = {}) => UNCHANGED <<connVars, storeVars, merge>>
        /\ SubIsArgs' ]_vars

\* a second thread, started after the first one ended, with two of three ids
C17_Witness ==
    /\ Started(lastOp)
    /\ lastOp.ids = <<"C", "A", "B">>
    /\ Len(threads) = 2
    /\ threads[1] = DeadThread
    /\ threads[2].pc = "start"
    /\ Len(threads[2].ids) = MaxAssets
    /\ ws_thread = 2

\* C18: a call while a thread is alive changes neither the threads nor
\* _ws_thread nor _subscribed_ids.
C18_NoActionWhileAlive ==
    [][ (Calling /\ ThreadAlive) => UNCHANGED connVars ]_vars

\* the list of an open session's subscribe message
SubGood ==
    \A t \in DOMAIN threads :
        threads[t].sent = 1 =>
            /\ Len(threads[t].sub) <= MaxAssets
            /\ Cardinality(Range(threads[t].sub)) = Len(threads[t].sub)
            /\ Range(threads[t].sub) \cap {EmptyId, NullId} = {}
            /\ Range(threads[t].sub) \subseteq Range(threads[t].ids)

\* C19: the id list of the subscribe message has at most _max_assets
\* entries, no duplicate and no empty or null id, and every id in it comes
\* from the list start_live_prices was called with.
C19_SubscribeListClean ==
    [][ /\ (Calling /\ Len(threads') > Len(threads)) =>
              Range(threads'[Len(threads')].ids) \subseteq Range(lastOp'.ids)
        /\ SubGood' ]_vars

\* an open session subscribed with as many ids as the cap allows
C19_Witness ==
    \E t \in DOMAIN threads :
        /\ threads[t].pc = "open"
        /\ threads[t].sent = 1
        /\ Len(threads[t].sub) = MaxAssets
        /\ subscribed_ids # Range(threads[t].sub)

----------------------------------------------------------------------------
(* merge_live_into_events and merge_live_into_markets *)

MaxButtons == 2    \* a snapshot holds 0..MaxButtons buttons

\* a button of a snapshot; a button without a token id has NullId
Button(tid, price) == [token_id |-> tid, price |-> price, live |-> FALSE]

\* static prices 0.25 and 0.75, which no store entry holds
Buttons == {Button(t, p) : t \in Keys \cup {NullId}, p \in {1, 3}}
Snapshots == UNION {[1..n -> Buttons] : n \in 0..MaxButtons}

\* get_live_price(asset_id), lines 20-23: the entry dict itself, or None
GetLivePrice(asset_id) ==
    IF asset_id \in DOMAIN live_prices THEN Entry(asset_id) ELSE NoObj

\* the body of the innermost loop (sports_server.py lines 289-294,
\* sports_websocket.py lines 170-175) for one button
MergeButton(btn) ==
    IF ~TruthyId(btn.token_id) THEN btn
    ELSE LET lp == GetLivePrice(btn.token_id)
         IN  IF lp = NoObj THEN btn
             ELSE [btn EXCEPT !.price = PyOr(lp.ask, PyOr(lp.mid, btn.price)),
                              !.live = TRUE]

Merging == merge.pos # 0

\* merge_live_into_events(events_data) is called; the buttons are taken in
\* the order the loops reach them
MergeCall(buttons) ==
    /\ ~Merging
    /\ merge' = [buttons |-> buttons, pos |-> 1, given |-> buttons]
    /\ lastOp' = [op |-> "merge"]
    /\ UNCHANGED <<storeVars, connVars, betVars, callers, lockVars>>

\* the loop with a body that notes the static price in the entry it reads
MergeStepWritesBack ==
    LET btn == merge.buttons[merge.pos]
    IN  /\ Merging
        /\ merge.pos <= Len(merge.buttons)
        /\ merge' = [merge EXCEPT !.buttons[merge.pos] = MergeButton(btn),
                                  !.pos = merge.pos + 1]
        /\ heap' = IF btn.token_id \in DOMAIN live_prices
                   THEN [heap EXCEPT ![live_prices[btn.token_id]].mid = btn.price]
                   ELSE heap
        /\ UNCHANGED <<live_prices, now, hist, readerVars, lastOp, connVars, betVars, callers, lockVars>>

\* the loop handles the next button
MergeStep ==
    /\ Merging
    /\ merge.pos <= Len(merge.buttons)
    /\ merge' = [merge EXCEPT
                   !.buttons[merge.pos] = MergeButton(merge.buttons[merge.pos]),
                   !.pos = merge.pos + 1]
    /\ UNCHANGED <<storeVars, lastOp, connVars, betVars, callers, lockVars>>

\* the loops are done and the call returns; the caller serialises the snapshot
MergeReturn ==
    /\ Merging
    /\ merge.pos > Len(merge.buttons)
    /\ merge' = NoMerge
    /\ UNCHANGED <<storeVars, lastOp, connVars, betVars, callers, lockVars>>

\* _update_price called by the socket thread, before or during a merge
Writer(asset_id, bid, ask) ==
    LET r == UpdatePrice(Mem, asset_id, bid, ask)
    IN  /\ live_prices' = r.mem.store
        /\ heap' = r.mem.heap
        /\ lastOp' = [op |-> "update"]
        /\ UNCHANGED <<now, hist, readerVars, connVars, merge, betVars, callers, lockVars>>

\* the sides the feed supplies while snapshots are merged: none, 0.0, 0.5
MergePrices == {None, 0, 2}

NextMerge ==
    \/ \E s \in Snapshots : MergeCall(s)
    \/ MergeStep
    \/ MergeReturn
    \/ \E a \in Keys, b \in MergePrices, k \in MergePrices : Writer(a, b, k)

SpecMerge == Init /\ [][NextMerge]_vars

\* the merge loop handles button i in this step
Overlaying(i) == Merging /\ merge.pos = i /\ merge'.pos = i + 1

\* C20: a button whose token id has a store entry gets that entry's ask as
\* its price and is marked live; a button whose token id has no entry, or
\* that has no token id, keeps its price and is not marked live.
C20_MergeTakesAsk ==
    [][ \A i \in 1..MaxButtons :
          Overlaying(i) =>
            LET old == merge.buttons[i]
                new == merge'.buttons[i]
            IN  IF TruthyId(old.token_id) /\ old.token_id \in DOMAIN live_prices
                THEN new.price = Entry(old.token_id).ask /\ new.live
                ELSE new = old ]_vars

\* the merge call has handled every button
Merged == Merging /\ merge.pos > Len(merge.buttons)

\* C21: a merge call leaves the store as it was, key set and entries; it
\* changes the snapshot only.
C21_MergeReadsOnly ==
    [][ merge' # merge => (live_prices' = live_prices /\ heap' = heap) ]_vars

\* a merge that has overlaid a button, beside the entry it read
C21_Witness ==
    /\ Merged
    /\ merge.given = <<Button("A", 1), Button("B", 3)>>
    /\ merge.buttons[1].live /\ merge.buttons[1].price = 2
    /\ ~merge.buttons[2].live
    /\ DOMAIN live_prices = {"A"}
    /\ Entry("A").ask = 2

\* C22: the overlays of one merge call reflect one state of the store: two
\* buttons given alike (same token id, same static price) come out alike,
\* whatever _update_price does meanwhile.
C22_OneStorePerMerge ==
    Merged =>
        \A i, j \in DOMAIN merge.buttons :
            merge.given[i] = merge.given[j] => merge.buttons[i] = merge.buttons[j]

\* C30: a button is marked live if and only if its price was replaced by a
\* value of the store, the entry's ask or else its mid; a button left at its
\* static price is not marked live.
C30_LiveIffOverlaid ==
    [][ \A i \in 1..MaxButtons :
          Overlaying(i) =>
            LET old == merge.buttons[i]
                new == merge'.buttons[i]
                has == old.token_id \in DOMAIN live_prices
            IN  new.live <=>
                  /\ has
                  /\ new.price \in {Entry(old.token_id).ask, Entry(old.token_id).mid}
                  /\ new.price # old.price ]_vars

----------------------------------------------------------------------------
(* Orders: sports_executor.py and the /api/place-bet handler *)

\* Money and prices are counted in cents, sizes in hundredths of a share.
Cents == 100
BET_AMOUNT_USD == 10
MAX_ORDER_SIZE_USD == 100
MIN_ORDER_SIZE_USD == 1
MIN_ORDER_SIZE == 5
PRICE_SLIPPAGE == 1                \* 0.01, in cents
PriceCap == 99                     \* 0.99, line 72

\* an integer too large for a float, as JSON may carry it
JHuge == J("huge", None)

AmountJ == {JAbsent, JNum(50), JNum(1000), JNum(100000), JBad, JHuge}
PriceJ == {JAbsent, JNull, JNum(49), JStr(49), JNum(99), JNum(0), JNum(100),
           JBad, JHuge}
TokenJ == {"A", EmptyId, NullId}
Fates == {"accepted", "no_client", "no_creds", "sign_fails", "post_fails"}

Req(token_id, amount, price) ==
    [token_id |-> token_id, amount |-> amount, price |-> price]

\* float(x) inside try/except (TypeError, ValueError): the value, or the
\* exception caught (dflt), or OverflowError, which is not caught
BetFloat(w, dflt) ==
    IF w.t \in {"str", "num"} THEN [escapes |-> FALSE, val |-> w.v]
    ELSE IF w.t = "huge" THEN [escapes |-> TRUE, val |-> None]
    ELSE [escapes |-> FALSE, val |-> dflt]

Max(a, b) == IF a >= b THEN a ELSE b

\* max(MIN_ORDER_SIZE_USD, min(amount_usd, MAX_ORDER_SIZE_USD))
Clamp(amt) ==
    Max(MIN_ORDER_SIZE_USD * Cents, Min(amt, MAX_ORDER_SIZE_USD * Cents))

\* round(num / den) to the nearest integer; the inputs here never tie
RoundDiv(num, den) == (2 * num + den) \div (2 * den)

\* what a call returns: the order handed to the client, if one was, the
\* result, and _client afterwards
Outcome(order, result, cl) == [order |-> order, result |-> result, client |-> cl]

\* get_clob_client(), lines 26-39, and then the signing and the posting of
\* the order, all inside the caller's try
Submit(cl, order, fate) ==
    IF cl = "none" /\ fate = "no_client" THEN Outcome(NoOrder, "error", "none")
    ELSE IF cl = "none" /\ fate = "no_creds" THEN Outcome(NoOrder, "error", "nocreds")
    ELSE LET got == IF cl = "none" THEN "ready" ELSE cl
         IN  IF fate = "accepted" THEN Outcome(order, "ok", got)
             ELSE Outcome(order, "error", got)

\* place_bet_market(token_id, amount_usd), lines 42-61
PlaceBetMarket(cl, amt, fate) ==
    Submit(cl, [kind |-> "market", amount |-> Clamp(amt), price |-> 0, size |-> 0],
           fate)

\* place_bet_limit(token_id, amount_usd, price), lines 64-88
PlaceBetLimit(cl, amt, price, fate) ==
    IF price <= 0 \/ price >= Cents THEN Outcome(NoOrder, "error", cl)
    ELSE LET p == Min(PriceCap, price + PRICE_SLIPPAGE)
             size == Max(MIN_ORDER_SIZE * Cents, RoundDiv(amt * Cents, p))
         IN  Submit(cl, [kind |-> "limit", amount |-> 0, price |-> p, size |-> size],
                    fate)

\* execute_bet(token_id, amount_usd, price), lines 91-106
ExecuteBet(cfg, cl, amount, price, fate) ==
    LET a == IF IsNone(amount) THEN [escapes |-> FALSE, val |-> BET_AMOUNT_USD * Cents]
             ELSE BetFloat(amount, BET_AMOUNT_USD * Cents)
        f == IF IsNone(price) THEN [escapes |-> FALSE, val |-> None]
             ELSE BetFloat(price, None)
    IN  IF a.escapes \/ f.escapes THEN Outcome(NoOrder, "raised", cl)
        ELSE IF f.val # None /\ 0 < f.val /\ f.val < Cents /\ ~cfg.use_market
        THEN PlaceBetLimit(cl, a.val, f.val, fate)
        ELSE PlaceBetMarket(cl, a.val, fate)

\* the HTTP status of the answer: 500 is what the framework makes of an
\* exception that leaves the handler
StatusOf(result) == IF result = "ok" THEN 200 ELSE IF result = "raised" THEN 500 ELSE 400

\* POST /api/place-bet, sports_server.py lines 1026-1037; fate is what the
\* exchange client does with this request
ApiPlaceBet(req, fate) ==
    /\ fate \in {"no_client", "no_creds"} => client = "none"
    /\ IF ~TruthyId(req.token_id)
       THEN /\ bet' = [req |-> req, order |-> NoOrder, result |-> "error", status |-> 400]
            /\ client' = client
       ELSE LET r == ExecuteBet(config, client, req.amount, req.price, fate)
            IN  /\ bet' = [req |-> req, order |-> r.order, result |-> r.result,
                           status |-> StatusOf(r.result)]
                /\ client' = r.client
    /\ lastOp' = [op |-> "bet", fate |-> fate]
    /\ UNCHANGED <<storeVars, connVars, merge, config, callers, lockVars>>

\* any configuration the environment can set
InitBet == InitState /\ config \in Configs

\* the answer has been sent
BetReturn ==
    /\ bet # NoBet
    /\ bet' = NoBet
    /\ lastOp' = [op |-> "idle"]
    /\ UNCHANGED <<storeVars, connVars, merge, config, client, callers, lockVars>>

NextBet ==
    \/ /\ bet = NoBet
       /\ \E t \in TokenJ, a \in AmountJ, p \in PriceJ, fate \in Fates :
              ApiPlaceBet(Req(t, a, p), fate)
    \/ BetReturn

SpecBet == InitBet /\ [][NextBet]_vars

\* the request asked for a price that is a number strictly between 0 and 1
ValidPrice(w) == w.t \in {"str", "num"} /\ 0 < w.v /\ w.v < Cents

\* execute_bet was called for the last request and handed an order over
Placed == bet.order.kind # "none"

\* C23: execute_bet places a limit order when the price given is valid and
\* a market order otherwise, under every configuration.
C23_LimitIffValidPrice ==
    Placed => (bet.order.kind = "limit" <=> ValidPrice(bet.req.price))

\* C24: placing an order ends in a result, ok or error, and never in an
\* exception; a request without token id hands over no order; every result
\* that is not ok is answered 400.
C24_AlwaysAResult ==
    bet # NoBet =>
        /\ bet.result \in {"ok", "error"}
        /\ ~TruthyId(bet.req.token_id) => ~Placed
        /\ bet.result # "ok" => bet.status = 400

\* C29: a message that fails to decode leaves the store as it was before
\* that message, whatever its kind, a price_change with a malformed delta
\* after valid ones included.
C29_FailedMessageNoEffect ==
    [][ (/\ Handling
         /\ lastOp'.frame.valid
         /\ Len(Arrived(lastOp'.frame)) = 1
         /\ Malformed(Arrived(lastOp'.frame)[1]))
        => (live_prices' = live_prices /\ heap' = heap) ]_vars

----------------------------------------------------------------------------
(* The feed as a whole: the starter, the connection thread and the frames it
   receives, readers and merges *)

\* a frame of one book, and a frame of a message that fails and a delta
LifeFrames ==
    {ObjFrame(Book("A", <<Level(JStr(2))>>, <<Level(JStr(4))>>)),
     ArrFrame(<<Trade("A", JBad), PriceChange(<<Change("B", JNull, JStr(4))>>)>>)}

LifeSnapshots == {<<Button("A", 1)>>}
LifeLists == {<<"A">>}

\* lines 136-143: run_forever reads a frame of the open session of thread t
\* and calls on_message with it
Deliver(t, frame) ==
    /\ threads[t].pc = "open"
    /\ OnMessage(frame)

NextLife ==
    \/ ~Started(lastOp) /\ \E ids \in LifeLists : StartLivePrices(ids)
    \/ StartReturn
    \/ \E t \in DOMAIN threads : ThreadStep(t)
    \/ ~Handled(lastOp) /\ \E t \in DOMAIN threads, f \in LifeFrames : Deliver(t, f)
    \/ Return
    \/ GetAllLivePrices
    \/ Drop
    \/ \E s \in LifeSnapshots : MergeCall(s)
    \/ MergeStep
    \/ MergeReturn

SpecLife == Init /\ [][NextLife]_vars

\* the positions a connection task may move between
TaskMoves ==
    {<<"start", "connecting">>, <<"start", "dead">>, <<"connecting", "open">>,
     <<"connecting", "sleep">>, <<"open", "sleep">>, <<"sleep", "connecting">>}

\* C25: a connection task moves Idle -> Connecting -> Subscribed ->
\* Disconnected -> Connecting only; an open sends exactly one subscribe
\* message, and a frame is dispatched only in an open session that has sent
\* it; a new connect follows the end of the session and the backoff wait.
C25_TaskStateMachine ==
    [][ /\ \A t \in DOMAIN threads :
             LET old == threads[t]
                 new == threads'[t]
             IN  /\ old.pc # new.pc => <<old.pc, new.pc>> \in TaskMoves
                 /\ new.sent = (IF new.pc = "open" THEN 1 ELSE 0)
                 /\ (old.pc = "sleep" /\ new.pc = "connecting") =>
                        new.wait = Min(old.backoff, max_backoff) /\ new.wait > 0
        /\ Handling =>
             \E t \in DOMAIN threads :
                 /\ threads[t].pc = "open" /\ threads[t].sent = 1
                 /\ threads'[t] = threads[t] ]_vars

\* a frame handled in the session a task opened after its first wait
C25_Witness ==
    /\ Handled(lastOp)
    /\ "A" \in DOMAIN live_prices
    /\ \E t \in DOMAIN threads :
           threads[t].pc = "open" /\ threads[t].sent = 1 /\ threads[t].n = 1

\* C26: every subscribe message of a task carries the id list of the call
\* that started it, on the first open and on every reconnect, whatever
\* later calls ask for.
C26_SubscriptionFixed ==
    [][ /\ \A t \in DOMAIN threads :
             /\ (Alive(threads[t]) /\ Alive(threads'[t])) =>
                    threads'[t].ids = threads[t].ids
             /\ threads'[t].sent = 1 => threads'[t].sub = threads'[t].ids
        /\ (Calling /\ Len(threads') > Len(threads)) =>
             /\ Range(threads'[Len(threads')].ids) \subseteq Asked
             /\ Len(threads'[Len(threads')].ids) = Min(Cardinality(Asked), MaxAssets)
       ]_vars

\* a task subscribed again with its own list after a later call asked for more
C26_Witness ==
    \E t \in DOMAIN threads :
        /\ threads[t].pc = "open" /\ threads[t].sent = 1 /\ threads[t].n >= 1
        /\ threads[t].sub = <<"A">>
        /\ subscribed_ids = {"A", "B"}

\* C27: the backoff of a task never decreases, after a session that was open
\* as after a failed connect, and so no wait is shorter than one before it.
C27_BackoffNeverReset ==
    [][ \A t \in DOMAIN threads :
          Alive(threads'[t]) =>
            /\ threads'[t].backoff >= threads[t].backoff
            /\ threads'[t].wait >= threads[t].wait ]_vars

\* a session open after three waits, with the backoff where the waits left it
C27_Witness ==
    \E t \in DOMAIN threads :
        /\ threads[t].pc = "open"
        /\ threads[t].n = 3
        /\ threads[t].wait = 720
        /\ threads[t].backoff = 1080

\* C28: an instrument that has an entry keeps having one, through updates,
\* reads, merges, disconnects and reconnects.
C28_KeysOnlyGrow ==
    [][ DOMAIN live_prices \subseteq DOMAIN live_prices' ]_vars

\* both entries in place after a reconnect, a read and a merge
C28_Witness ==
    /\ DOMAIN live_prices = Keys
    /\ held # NoDict
    /\ Merged /\ merge.buttons[1].live
    /\ \E t \in DOMAIN threads : threads[t].pc = "sleep" /\ threads[t].n >= 1

\* the USD notional of the order handed over, in hundredths of a cent
Notional ==
    IF bet.order.kind = "market" THEN bet.order.amount * Cents
    ELSE bet.order.size * bet.order.price

\* C32: every order handed to the client has a notional within
\* [MIN_ORDER_SIZE_USD, MAX_ORDER_SIZE_USD]: the amount of a market order,
\* size x price of a limit order.
C32_NotionalWithinLimits ==
    Placed =>
        /\ Notional >= MIN_ORDER_SIZE_USD * Cents * Cents
        /\ Notional <= MAX_ORDER_SIZE_USD * Cents * Cents

\* the first n distinct members of l, in the order of l
RECURSIVE FirstDistinct(_, _)
FirstDistinct(l, n) ==
    IF n = 0 \/ l = <<>> THEN {}
    ELSE LET rest == SelectSeq(Tail(l), LAMBDA a : a # Head(l))
         IN  {Head(l)} \cup FirstDistinct(rest, n - 1)

\* C34: a call with more than _max_assets distinct ids subscribes to the
\* first _max_assets distinct ids of the list, in the order of the list
\* (the events sorted by liquidity and volume).
C34_TopByListOrder ==
    [][ (Calling /\ Cardinality(Range(Wanted(lastOp'.ids))) > MaxAssets) =>
            /\ subscribed_ids' = FirstDistinct(Wanted(lastOp'.ids), MaxAssets)
            /\ Len(threads') > Len(threads) =>
                   Range(threads'[Len(threads')].ids)
                       = FirstDistinct(Wanted(lastOp'.ids), MaxAssets) ]_vars

----------------------------------------------------------------------------
(* start_live_prices called by several request handlers at once *)

\* handler h is at pc, with ids as its local list
At(h, pc, ids) == callers' = [callers EXCEPT ![h] = [pc |-> pc, ids |-> ids]]

\* lines 151-156: handler h enters start_live_prices(asset_ids), computes
\* ids, returns if there is none and assigns _subscribed_ids otherwise
CallEnter(h, asset_ids) ==
    /\ callers[h].pc = "idle"
    /\ IF Wanted(asset_ids) = <<>>
       THEN UNCHANGED <<callers, subscribed_ids>>
       ELSE \E ids \in StartIds(asset_ids) :
              /\ subscribed_ids' = Range(ids)
              /\ At(h, "test", ids)
    /\ UNCHANGED <<storeVars, lastOp, threads, ws_thread, merge, betVars, lockVars>>

\* lines 157-159: if _ws_thread and _ws_thread.is_alive(): return
CallTest(h) ==
    /\ callers[h].pc = "test"
    /\ IF ThreadAlive
       THEN At(h, "idle", <<>>)
       ELSE At(h, "create", callers[h].ids)
    /\ UNCHANGED <<storeVars, lastOp, connVars, merge, betVars, lockVars>>

\* line 160: _ws_thread = threading.Thread(target=_run_ws, args=(ids,))
CallCreate(h) ==
    /\ callers[h].pc = "create"
    /\ Len(threads) < MaxThreads
    /\ threads' = Append(threads, [NewThread(callers[h].ids) EXCEPT !.pc = "new"])
    /\ ws_thread' = Len(threads) + 1
    /\ At(h, "run", callers[h].ids)
    /\ UNCHANGED <<storeVars, lastOp, subscribed_ids, merge, betVars, lockVars>>

\* line 161: _ws_thread.start(), on the thread the global names by now;
\* starting a thread a second time raises RuntimeError in the handler
CallStart(h) ==
    /\ callers[h].pc = "run"
    /\ threads' = IF threads[ws_thread].pc = "new"
                  THEN [threads EXCEPT ![ws_thread].pc = "start"]
                  ELSE threads
    /\ At(h, "idle", <<>>)
    /\ UNCHANGED <<storeVars, lastOp, ws_thread, subscribed_ids, merge, betVars, lockVars>>

RaceLists == {<<>>, <<"A">>, <<"B">>}

\* two handlers calling start_live_prices, and the threads they start
NextRace ==
    \/ \E h \in Handlers, ids \in RaceLists : CallEnter(h, ids)
    \/ \E h \in Handlers : CallTest(h)
    \/ \E h \in Handlers : CallCreate(h)
    \/ \E h \in Handlers : CallStart(h)
    \/ \E t \in DOMAIN threads : RunWs(t) \/ Opened(t) \/ Failed(t) \/ Closed(t)

SpecRace == Init /\ [][NextRace]_vars

\* the connection threads that are alive
LiveThreads == {t \in DOMAIN threads : Alive(threads[t])}

\* C31: however the start_live_prices calls of the request handlers
\* interleave, at most one connection thread is alive at any time.
C31_OneLiveThread == Cardinality(LiveThreads) <= 1

----------------------------------------------------------------------------
(* The store operations, statement by statement, under _lock *)

\* a with block whose early return leaves the lock with the thread
UnlockUnlessNoop(c, noop) == IF noop THEN c ELSE NoOne

\* the end of a with _lock block, by return or by falling off its end:
\* the holder after it
Unlock(c, noop) == NoOne

\* thread c goes on at pc in the same operation
OpAt(c, pc) == ops' = [ops EXCEPT ![c].pc = pc]

\* thread c enters operation op with these arguments and waits for the lock
OpCall(c, op, asset_id, bid, ask, pc) ==
    ops' = [ops EXCEPT ![c] = [pc |-> pc, op |-> op, asset_id |-> asset_id,
                               bid |-> bid, ask |-> ask]]

\* the call of line 37 changes nothing
Noop(op) == op.op = "update" /\ op.bid = None /\ op.ask = None

\* the {bid, ask, mid} an entry dict shows
Triple(e) == [bid |-> e.bid, ask |-> e.ask, mid |-> e.mid]

\* lines 32-35: _update_price is called; an empty id returns before the lock
UpdateBegin(c, asset_id, bid, ask) ==
    /\ ops[c].pc = "idle"
    /\ OpCall(c, "update", asset_id, bid, ask,
              IF TruthyId(asset_id) THEN "wait" ELSE "idle")
    /\ UNCHANGED <<storeVars, lastOp, connVars, merge, betVars, callers, lock, written>>

\* line 20: get_live_price(asset_id) is called by a reader that holds nothing
GetBegin(c, asset_id) ==
    /\ ops[c].pc = "idle"
    /\ held.none
    /\ OpCall(c, "get", asset_id, None, None, "wait")
    /\ UNCHANGED <<storeVars, lastOp, connVars, merge, betVars, callers, lock, written>>

\* line 26: get_all_live_prices() is called by a reader that holds nothing
AllBegin(c) ==
    /\ ops[c].pc = "idle"
    /\ held.none
    /\ OpCall(c, "all", EmptyId, None, None, "wait")
    /\ UNCHANGED <<storeVars, lastOp, connVars, merge, betVars, callers, lock, written>>

\* lines 22, 28, 36: with _lock, entered when no thread holds the lock
Acquire(c) ==
    /\ ops[c].pc = "wait"
    /\ lock = NoOne
    /\ lock' = c
    /\ OpAt(c, "in")
    /\ UNCHANGED <<storeVars, lastOp, connVars, merge, betVars, callers, written>>

\* lines 37-52, inside the lock: nothing for a call without a side, the new
\* entry dict otherwise
UpdateBody(c) ==
    /\ ops[c].pc = "in"
    /\ ops[c].op = "update"
    /\ LET r == UpdatePrice(Mem, ops[c].asset_id, ops[c].bid, ops[c].ask)
       IN  /\ live_prices' = r.mem.store
           /\ heap' = r.mem.heap
           /\ written' = IF Noop(ops[c]) THEN written
                         ELSE written \cup {Triple(EntryOf(r.mem, ops[c].asset_id))}
    /\ OpAt(c, "exit")
    /\ UNCHANGED <<now, hist, readerVars, lastOp, connVars, merge, betVars, callers, lock>>

\* the entry dict _live_prices.get(asset_id) returns, as the reader holds it
LivePricesGet(asset_id) ==
    IF asset_id \in DOMAIN live_prices
    THEN [alias |-> FALSE, items |-> (asset_id :> live_prices[asset_id]), none |-> FALSE]
    ELSE NoDict

\* line 23, inside the lock: return _live_prices.get(asset_id)
GetBody(c) ==
    /\ ops[c].pc = "in"
    /\ ops[c].op = "get"
    /\ held' = LivePricesGet(ops[c].asset_id)
    /\ seen' = ViewOf(LivePricesGet(ops[c].asset_id))
    /\ OpAt(c, "exit")
    /\ UNCHANGED <<live_prices, heap, now, hist, lastOp, connVars, merge, betVars,
                   callers, lock, written>>

\* line 29, inside the lock: return dict(_live_prices)
AllBody(c) ==
    /\ ops[c].pc = "in"
    /\ ops[c].op = "all"
    /\ held' = LivePricesCopy
    /\ seen' = ViewOf(LivePricesCopy)
    /\ OpAt(c, "exit")
    /\ UNCHANGED <<live_prices, heap, now, hist, lastOp, connVars, merge, betVars,
                   callers, lock, written>>

\* the with block is left and the operation returns
Release(c) ==
    /\ ops[c].pc = "exit"
    /\ lock' = Unlock(c, Noop(ops[c]))
    /\ OpAt(c, "idle")
    /\ UNCHANGED <<storeVars, lastOp, connVars, merge, betVars, callers, written>>

LockIds == {"A", EmptyId}
LockBids == {None, 2}
LockAsks == {None, 4}

\* two threads that update and one that reads, in every interleaving
NextLock ==
    \/ \E c \in Writers, a \in LockIds, b \in LockBids, k \in LockAsks :
            UpdateBegin(c, a, b, k)
    \/ \E c \in Readers : GetBegin(c, "A")
    \/ \E c \in Readers : AllBegin(c)
    \/ \E c \in StoreThreads : Acquire(c)
    \/ \E c \in Writers : UpdateBody(c)
    \/ \E c \in Readers : GetBody(c)
    \/ \E c \in Readers : AllBody(c)
    \/ \E c \in StoreThreads : Release(c)
    \/ Drop

SpecLock == Init /\ [][NextLock]_vars

\* thread c is inside a with _lock block
Inside(c) == ops[c].pc \in {"in", "exit"}

\* C33: in every interleaving of get_live_price, get_all_live_prices and
\* _update_price, each quote the reader holds is the {bid, ask, mid} one
\* _update_price call stored and stays what it was when it was returned,
\* and a thread holds the lock exactly while it is inside a with block:
\* none keeps it after returning, the no-op returns included.
C33_NoTornReads ==
    /\ ViewOf(held) = seen
    /\ \A k \in DOMAIN seen : seen[k] \in written
    /\ \A c \in StoreThreads : (lock = c) <=> Inside(c)

\* the reader holds a quote of A that an update made after the read has
\* replaced in the store, a no-op update has returned, and the lock is free
C33_Witness ==
    /\ ~held.none
    /\ "A" \in DOMAIN seen
    /\ Triple(Entry("A")) # seen["A"]
    /\ \E c \in Writers : ops[c].pc = "idle" /\ Noop(ops[c]) /\ TruthyId(ops[c].asset_id)
    /\ lock = NoOne

====
